---- MODULE Spec2Model ----
(***************************************************************************)
(* Model of the DID-WBA authentication gate of the ANP agent example:      *)
(* src/src/auth_middleware.py (exemption matching, Verifier Adapter,       *)
(* middleware orchestration) together with the stand-in verifier of        *)
(* src/src/mock_agent_connect.py and the routes of src/src/main.py.        *)
(* Beside it: the DID document store (src/src/did_server.py), the file     *)
(* routes (src/src/api_router.py, src/src/yaml_router.py), the JSON-RPC    *)
(* endpoints (src/src/jsonrpc_router.py), the LLM-driven local agent       *)
(* (src/src/local_agent_use_llm.py) and the example client                 *)
(* (examples/client_example.py).                                           *)
(*                                                                         *)
(* Python strings are TLA+ strings (Len, SubSeq and \o act on them).       *)
(* A dict is a function from its keys; an Optional[str] that is None is    *)
(* the value NoneStr, an Optional[dict] that is None is NoneDict.          *)
(***************************************************************************)
EXTENDS Integers, Sequences, FiniteSets, TLC

VARIABLES
    verifier,        \* which DidWbaVerifier the process was started with
    pc,              \* per request: position of its auth_middleware coroutine
    exempt_table,    \* the module-level list EXEMPT_PATHS of the process
    request,         \* per request: [method, path, query, headers]
    response_auth,   \* per request: local response_auth of auth_middleware
    state_headers,   \* per request: request.state.headers
    verifier_call,   \* per request: the arguments the external verifier got
    verdict,         \* per request: what the external verifier returned/raised
    handler_out,     \* per request: what call_next returned/raised
    response,        \* per request: the response auth_middleware returned
    events,          \* per request: the steps taken so far, in order
    did_files,       \* DIDKeyManager: the files of did_document_path
    did_saved,       \* DIDKeyManager: the documents saved so far, in order
    did_result,      \* DIDKeyManager: outcome of the last get_did_document
    api_files,       \* the names of the files in the API files directory
    file_result,     \* get_json_file / get_yaml_file: the last call's outcome
    rpc_result,      \* jsonrpc_router: the last call and its outcome
    llm_pc,          \* LLMLocalAgent.run: position of the coroutine
    llm_messages,    \* LLMLocalAgent.run: the local list messages
    llm_pending,     \* LLMLocalAgent.run: tool calls the for loop has left
    llm_completions, \* LLMLocalAgent.run: completions requested so far
    llm_result,      \* LLMLocalAgent.run: what run returned or raised
    client_pc,            \* ANPAgentClient: position of get_agent_description
    client_authenticator, \* ANPAgentClient.authenticator is not None
    client_nonce,         \* DIDWbaAuthHeader: the headers it has made so far
    client_calls,         \* get_agent_description calls made so far
    client_sent,          \* the requests the current call has sent, in order
    client_responses,     \* the responses the current call got, in order
    client_result         \* what the current call returned or raised

authVars == <<verifier, exempt_table, pc, request, response_auth,
              state_headers, verifier_call, verdict, handler_out, response,
              events>>

didVars == <<did_files, did_saved, did_result>>

fileVars == <<api_files, file_result>>

\* What the middleware, the DID store and the file routes leave alone
rpcVars == <<rpc_result>>

llmVars == <<llm_pc, llm_messages, llm_pending, llm_completions, llm_result>>

\* The example programs that run beside the service
clientVars == <<client_pc, client_authenticator, client_nonce, client_calls,
                client_sent, client_responses, client_result>>

exampleVars == <<llmVars, clientVars>>

besideAuth == <<didVars, fileVars, rpcVars, exampleVars>>
besideDid == <<authVars, fileVars, rpcVars, exampleVars>>
besideFiles == <<authVars, didVars, rpcVars, exampleVars>>
besideRpc == <<authVars, didVars, fileVars, exampleVars>>
besideLlm == <<authVars, didVars, fileVars, rpcVars, clientVars>>
besideClient == <<authVars, didVars, fileVars, rpcVars, llmVars>>

vars == <<authVars, didVars, fileVars, rpcVars, exampleVars>>

----------------------------------------------------------------------------
(* Python values                                                           *)

NoneStr == "<None>"
NoneDict == [none |-> TRUE]

\* dict.get(key, default)
Get(d, key, default) == IF key \in DOMAIN d THEN d[key] ELSE default

\* str.startswith
StartsWith(s, prefix) ==
    /\ Len(prefix) <= Len(s)
    /\ SubSeq(s, 1, Len(prefix)) = prefix

\* str.endswith
EndsWith(s, suffix) ==
    /\ Len(suffix) <= Len(s)
    /\ SubSeq(s, Len(s) - Len(suffix) + 1, Len(s)) = suffix

\* `sub in s`
Contains(s, sub) ==
    \E i \in 1..(Len(s) - Len(sub) + 1) : SubSeq(s, i, i + Len(sub) - 1) = sub

\* s[n:]
DropPrefix(s, n) == IF n >= Len(s) THEN "" ELSE SubSeq(s, n + 1, Len(s))

UpperAlphabet == "ABCDEFGHIJKLMNOPQRSTUVWXYZ"
LowerAlphabet == "abcdefghijklmnopqrstuvwxyz"

LowerChar(c) ==
    IF \E i \in 1..Len(UpperAlphabet) : SubSeq(UpperAlphabet, i, i) = c
    THEN LET i == CHOOSE j \in 1..Len(UpperAlphabet) : SubSeq(UpperAlphabet, j, j) = c
         IN  SubSeq(LowerAlphabet, i, i)
    ELSE c

\* str.lower, character by character from position i on
RECURSIVE LowerFrom(_, _)
LowerFrom(s, i) ==
    IF i > Len(s) THEN ""
    ELSE LowerChar(SubSeq(s, i, i)) \o LowerFrom(s, i + 1)

\* str.lower
Lower(s) == LowerFrom(s, 1)

\* s.split(sep)[0] for a one-character separator: what precedes the first
\* occurrence of sep, the whole of s when there is none
SplitFirst(s, sep) ==
    IF \E i \in 1..Len(s) : SubSeq(s, i, i) = sep
    THEN LET first == CHOOSE i \in 1..Len(s) :
                          /\ SubSeq(s, i, i) = sep
                          /\ \A j \in 1..(i - 1) : SubSeq(s, j, j) # sep
         IN  SubSeq(s, 1, first - 1)
    ELSE s

----------------------------------------------------------------------------
(* Exemption Matcher                                                       *)

EXEMPT_PATHS ==
    << "/favicon.ico",
       "/v1/status",
       "/health",
       "/docs",
       "/redoc",
       "/openapi.json",
       "/wba/user/",
       "/",
       "/v1/chat",
       "/static/",
       "/agents/test/ad.json" >>

\* EntryMatches with a bare startswith for an entry without a trailing "/"
EntryMatchesNoSlash(exempt_path, path) ==
    IF exempt_path = "/"
    THEN path = "/"
    ELSE \/ path = exempt_path
         \/ StartsWith(path, exempt_path)

\* One iteration of the loop of authenticate_request: does exempt_path
\* make the request path exempt?
EntryMatches(exempt_path, path) ==
    IF exempt_path = "/"
    THEN path = "/"
    ELSE \/ path = exempt_path
         \/ (EndsWith(exempt_path, "/") /\ StartsWith(path, exempt_path))
         \/ (~EndsWith(exempt_path, "/") /\ StartsWith(path, exempt_path \o "/"))

\* FirstMatch with the loop stopping one entry short of the end of the table
RECURSIVE FirstMatchSkipsLast(_, _, _)
FirstMatchSkipsLast(table, path, i) ==
    IF i > Len(table) - 1 THEN 0
    ELSE IF EntryMatches(table[i], path) THEN i
    ELSE FirstMatchSkipsLast(table, path, i + 1)

\* FirstMatch with the loop ended by a root entry that does not match
RECURSIVE FirstMatchRootEndsLoop(_, _, _)
FirstMatchRootEndsLoop(table, path, i) ==
    IF i > Len(table) THEN 0
    ELSE IF EntryMatches(table[i], path) THEN i
    ELSE IF table[i] = "/" THEN 0
    ELSE FirstMatchRootEndsLoop(table, path, i + 1)

\* The loop itself: the index of the first entry that matches, 0 when the
\* loop runs to its end.
RECURSIVE FirstMatch(_, _, _)
FirstMatch(table, path, i) ==
    IF i > Len(table) THEN 0
    ELSE IF EntryMatches(table[i], path) THEN i
    ELSE FirstMatch(table, path, i + 1)

\* IsExempt with every entry treated as a plain prefix
IsExemptPlainPrefix(path) ==
    \E i \in 1..Len(EXEMPT_PATHS) : StartsWith(path, EXEMPT_PATHS[i])

\* authenticate_request on the list the process holds
IsExempt(path) == FirstMatch(exempt_table, path, 1) # 0

\* str(request.url): the path of the request followed by its query string
UrlOf(req) ==
    IF req.query = "" THEN req.path ELSE req.path \o "?" \o req.query

\* UrlPath with the query string left in
UrlPathWithQuery(req) == UrlOf(req)

\* request.url.path: the URL up to the query string
UrlPath(req) == SplitFirst(UrlOf(req), "?")

----------------------------------------------------------------------------
(* Exceptions and the external verifier                                    *)

HTTPException(status_code, detail) ==
    [type |-> "HTTPException", status_code |-> status_code, detail |-> detail]

DidWbaVerifierError(message, status_code) ==
    [type |-> "DidWbaVerifierError", status_code |-> status_code, message |-> message]

\* Any exception that is neither of the two above
OtherException(message) == [type |-> "Exception", message |-> message]

Returned(value) == [kind |-> "return", value |-> value]
Raised(exc) == [kind |-> "raise", exc |-> exc]

\* MockVerifyAuthHeader accepting every token it does not reject by name
MockAcceptsAnyToken(auth_header, domain) ==
    IF auth_header = NoneStr \/ auth_header = ""
    THEN Raised(DidWbaVerifierError("Missing authorization header", 401))
    ELSE IF ~StartsWith(auth_header, "Bearer ") /\ ~StartsWith(auth_header, "DIDWba ")
    THEN Raised(DidWbaVerifierError("Invalid authorization header format", 401))
    ELSE LET token == DropPrefix(auth_header, 7)
         IN  IF token = "" \/ token = "invalid-token"
             THEN Raised(DidWbaVerifierError("Invalid token", 401))
             ELSE Returned([user_id |-> "test-user",
                            domain |-> domain,
                            token_type |-> "bearer",
                            access_token |-> token])

\* DidWbaVerifier.verify_auth_header of mock_agent_connect.py
MockVerifyAuthHeader(auth_header, domain) ==
    IF auth_header = NoneStr \/ auth_header = ""
    THEN Raised(DidWbaVerifierError("Missing authorization header", 401))
    ELSE IF ~StartsWith(auth_header, "Bearer ") /\ ~StartsWith(auth_header, "DIDWba ")
    THEN Raised(DidWbaVerifierError("Invalid authorization header format", 401))
    ELSE LET token == DropPrefix(auth_header, 7)
         IN  IF token = "" \/ token = "invalid-token"
             THEN Raised(DidWbaVerifierError("Invalid token", 401))
             ELSE IF token = "test-mock-jwt-token"
             THEN Returned([user_id |-> "test-user",
                            domain |-> domain,
                            token_type |-> "bearer",
                            access_token |-> token])
             ELSE Raised(DidWbaVerifierError("Token verification failed", 401))

\* The agent_connect library is not part of the repository: what its
\* verify_auth_header may do, as far as auth_middleware can tell, is return a
\* result dict, raise its typed error with a status code and a message, or
\* raise anything else.
LibraryResults ==
    { [did |-> "did:wba:alice", token_type |-> "bearer", access_token |-> "jwt-1"],
      [did |-> "did:wba:alice", token_type |-> "mac", access_token |-> "jwt-2"],
      [did |-> "did:wba:alice", access_token |-> "jwt-3"] }

LibraryTypedErrors ==
    { DidWbaVerifierError("Invalid signature", 401),
      DidWbaVerifierError("DID not authorized", 403) }

LibraryOtherErrors ==
    { OtherException("Unsupported Authorization FORMAT"),
      OtherException("Malformed token for did:wba:alice"),
      OtherException("nonce store unavailable") }

LibraryOutcomes ==
    {Returned(v) : v \in LibraryResults}
        \cup {Raised(e) : e \in LibraryTypedErrors \cup LibraryOtherErrors}

Verifiers == {"mock_agent_connect", "agent_connect"}

\* _verifier.verify_auth_header(auth_header, domain), for the verifier in use
VerifierOutcomes(v, auth_header, domain) ==
    IF v = "mock_agent_connect"
    THEN {MockVerifyAuthHeader(auth_header, domain)}
    ELSE LibraryOutcomes

----------------------------------------------------------------------------
(* Verifier Adapter                                                        *)

\* request.headers.get(name, default): header names are case-insensitive
HeaderGet(headers, name, default) == Get(headers, Lower(name), default)

GetAndValidateDomain(req) ==
    LET host == HeaderGet(req.headers, "host", "")
    IN  SplitFirst(host, ":")

\* AdapterEntry with `if auth_header is None` in place of `if not auth_header`
AdapterEntryEmptyPasses(req) ==
    LET auth_header == HeaderGet(req.headers, "Authorization", NoneStr)
    IN  IF auth_header = NoneStr
        THEN Raised(HTTPException(401, "Missing authorization header"))
        ELSE [kind |-> "await",
              auth_header |-> auth_header,
              domain |-> GetAndValidateDomain(req)]

\* AdapterEntry without the check for a missing header
AdapterEntryNoHeaderCheck(req) ==
    [kind |-> "await",
     auth_header |-> HeaderGet(req.headers, "Authorization", NoneStr),
     domain |-> GetAndValidateDomain(req)]

\* verify_auth_header up to its await: either it raises, or it calls the
\* external verifier with (auth_header, domain)
AdapterEntry(req) ==
    LET auth_header == HeaderGet(req.headers, "Authorization", NoneStr)
    IN  IF auth_header = NoneStr \/ auth_header = ""
        THEN Raised(HTTPException(401, "Missing authorization header"))
        ELSE [kind |-> "await",
              auth_header |-> auth_header,
              domain |-> GetAndValidateDomain(req)]

\* AdapterResult with the typed error swallowed instead of re-raised
AdapterResultSwallowsError(outcome) ==
    IF outcome.kind = "raise" /\ outcome.exc.type = "DidWbaVerifierError"
    THEN Returned([error |-> outcome.exc.message])
    ELSE outcome

\* verify_auth_header after its await: the try/except around the verifier
AdapterResult(outcome) ==
    IF outcome.kind = "raise" /\ outcome.exc.type = "DidWbaVerifierError"
    THEN Raised(HTTPException(outcome.exc.status_code, outcome.exc.message))
    ELSE outcome

----------------------------------------------------------------------------
(* Responses and the downstream application                                *)

\* A response as the client sees it: status, JSON body, headers
Response(status_code, body, headers) ==
    [status_code |-> status_code, body |-> body, headers |-> headers]

JSONResponse(status_code, content) ==
    Response(status_code, content, ("content-type" :> "application/json"))

\* response.headers[name] = value
SetHeader(resp, name, value) ==
    [resp EXCEPT !.headers = (name :> value) @@ resp.headers]

\* Is `rest` exactly one non-empty path segment?
OneSegment(rest) == Len(rest) > 0 /\ ~Contains(rest, "/")

\* The routes of the application for GET: main.py and the routers it includes
RouteExists(path) ==
    \/ path \in {"/", "/health", "/v1/status", "/docs", "/redoc",
                 "/docs/oauth2-redirect", "/openapi.json",
                 "/agents/test/ad.json"}
    \/ \E prefix \in {"/agents/test/api/", "/agents/test/api_files/"} :
          /\ StartsWith(path, prefix)
          /\ OneSegment(DropPrefix(path, Len(prefix)))

\* not_found_handler of main.py
NotFoundResponse ==
    JSONResponse(404, [error |-> "Not Found", status_code |-> 404])

\* What a route handler may do: answer, answer with an authorization header
\* of its own, or raise
HandlerOutcomes ==
    { Returned(JSONResponse(200, [status |-> "ok"])),
      Returned(SetHeader(JSONResponse(200, [status |-> "ok"]),
                         "authorization", "handler-value")),
      Raised(OtherException("Token cache corrupted")),
      Raised(OtherException("disk failure")) }

\* A route exists for the path, but not for the method
MethodNotAllowedResponse ==
    JSONResponse(405, [detail |-> "Method Not Allowed"])

\* await call_next(request)
CallNextOutcomes(req) ==
    IF ~RouteExists(req.path) THEN {Returned(NotFoundResponse)}
    ELSE IF req.method # "GET" THEN {Returned(MethodNotAllowedResponse)}
    ELSE HandlerOutcomes

----------------------------------------------------------------------------
(* Middleware Orchestrator                                                 *)

CredentialKeywords == {"authorization", "bearer", "didwba", "token", "format"}

\* ExceptClauses answering every HTTPException with 401
ExceptClausesRewritesStatus(exc) ==
    IF exc.type = "HTTPException"
    THEN JSONResponse(401, [detail |-> exc.detail])
    ELSE LET error_msg == Lower(exc.message)
         IN  IF \E keyword \in CredentialKeywords : Contains(error_msg, keyword)
             THEN JSONResponse(401,
                      [detail |-> "Authentication error: " \o exc.message])
             ELSE JSONResponse(500, [detail |-> "Internal server error"])

\* ExceptClauses looking for the keywords in the message as raised, not
\* lower-cased
ExceptClausesCaseSensitive(exc) ==
    IF exc.type = "HTTPException"
    THEN JSONResponse(exc.status_code, [detail |-> exc.detail])
    ELSE IF \E keyword \in CredentialKeywords : Contains(exc.message, keyword)
         THEN JSONResponse(401,
                  [detail |-> "Authentication error: " \o exc.message])
         ELSE JSONResponse(500, [detail |-> "Internal server error"])

\* The two except clauses of auth_middleware
ExceptClauses(exc) ==
    IF exc.type = "HTTPException"
    THEN JSONResponse(exc.status_code, [detail |-> exc.detail])
    ELSE LET error_msg == Lower(exc.message)
         IN  IF \E keyword \in CredentialKeywords : Contains(error_msg, keyword)
             THEN JSONResponse(401,
                      [detail |-> "Authentication error: " \o exc.message])
             ELSE JSONResponse(500, [detail |-> "Internal server error"])

\* TryExcept with the `except HTTPException` clause alone
TryExceptHTTPOnly(outcome) ==
    IF outcome.kind = "raise" /\ outcome.exc.type = "HTTPException"
    THEN Returned(JSONResponse(outcome.exc.status_code,
                               [detail |-> outcome.exc.detail]))
    ELSE outcome

\* The try statement of auth_middleware around an outcome of its body
TryExcept(outcome) ==
    IF outcome.kind = "raise"
    THEN Returned(ExceptClauses(outcome.exc))
    ELSE outcome

\* AttachAuthorization that keeps an authorization header the handler set
AttachAuthorizationKeepsHandlerHeader(auth, headers, resp) ==
    IF auth # NoneDict /\ "authorization" \notin DOMAIN resp.headers
    THEN IF Get(auth, "token_type", " ") = "bearer"
         THEN SetHeader(resp, "authorization", "bearer " \o auth["access_token"])
         ELSE SetHeader(resp, "authorization", Get(headers, "authorization", ""))
    ELSE resp

\* AttachAuthorization without its else branch
AttachAuthorizationBearerOnly(auth, headers, resp) ==
    IF auth # NoneDict /\ Get(auth, "token_type", " ") = "bearer"
    THEN SetHeader(resp, "authorization", "bearer " \o auth["access_token"])
    ELSE resp

\* AttachAuthorization without the test `response_auth is not None`
AttachAuthorizationAlways(auth, headers, resp) ==
    IF Get(auth, "token_type", " ") = "bearer"
    THEN SetHeader(resp, "authorization", "bearer " \o auth["access_token"])
    ELSE SetHeader(resp, "authorization", Get(headers, "authorization", ""))

\* The body of auth_middleware after call_next has returned `resp`
AttachAuthorization(auth, headers, resp) ==
    IF auth # NoneDict
    THEN IF Get(auth, "token_type", " ") = "bearer"
         THEN SetHeader(resp, "authorization", "bearer " \o auth["access_token"])
         ELSE SetHeader(resp, "authorization", Get(headers, "authorization", ""))
    ELSE resp

----------------------------------------------------------------------------
(* Requests                                                                *)

\* The passes of auth_middleware that can be in progress at once; every
\* variable of a pass is indexed by its id
ReqIds == {1, 2}
\* Spec serves one request after the other through pass 1 (auth_middleware
\* shares nothing between passes), with the full set of inputs below
Serial == {1}

Paths ==
    { "/", "/health", "/healthz", "/docs/nonexistent", "/static/x.png",
      "/docs/oauth2-redirect",
      "/wba/user/alice/did.json", "/agents/test/ad.json",
      "/agents/test/api/external-interface.json",
      "/agents/travel/test/api/nonexistent.json", "/nonexistent" }

\* Values of the Authorization header; NoneStr: the header is not sent
AuthHeaders ==
    { NoneStr, "", "InvalidFormat", "Bearer", "Bearer ", "Basic dGVzdA==",
      "Bearer invalid-token", "Bearer not.a.jwt.at.all",
      "Bearer test-mock-jwt-token", "DIDWba proof-1" }

Queries == { "", "param=value&another=test" }
Methods == { "GET", "POST" }

\* Values of the Host header; NoneStr: the header is not sent
Hosts == { NoneStr, "testserver", "localhost:8000" }

\* Host headers that name the server by address: IPv4 with a port, and
\* bracketed IPv6 literals without and with a port
LiteralHosts == { "127.0.0.1:8000", "[::1]", "[2001:db8::1]:8000" }

\* dict(request.headers): lower-cased names
MakeHeaders(auth, host) ==
    LET base == ("accept" :> "*/*")
        h1 == IF auth = NoneStr THEN base ELSE ("authorization" :> auth) @@ base
    IN  IF host = NoneStr THEN h1 ELSE ("host" :> host) @@ h1

MakeRequest(method, path, query, auth, host) ==
    [method |-> method, path |-> path, query |-> query,
     headers |-> MakeHeaders(auth, host)]

\* The requests Spec serves: every path with every Authorization and Host
\* header as a plain GET, and every path with a query string or as a POST
SerialRequests ==
    { MakeRequest("GET", path, "", auth, host) :
          path \in Paths, auth \in AuthHeaders, host \in Hosts }
    \cup
    { MakeRequest("GET", "/agents/test/api/external-interface.json", "",
                  "Bearer test-mock-jwt-token", host) : host \in LiteralHosts }
    \cup
    { MakeRequest(method, path, query, auth, "testserver") :
          method \in Methods, path \in Paths, query \in Queries,
          auth \in {NoneStr, "Bearer test-mock-jwt-token"} }

\* The requests of the specifications with two passes in progress
ConcurrentRequests ==
    { MakeRequest(method, path, query, auth, "testserver") :
          method \in Methods,
          path \in {"/health", "/agents/test/api/external-interface.json"},
          query \in Queries,
          auth \in {NoneStr, "DIDWba test-mock-jwt-token"} }

NoRequest == [none |-> TRUE]
NoResponse == [none |-> TRUE]
NoOutcome == [kind |-> "none"]

\* request.state of a pass: its attributes, none before the assignment of
\* auth_middleware
NoAttributes == [a \in {} |-> TRUE]
RequestState(r) ==
    IF state_headers[r] = NoneDict
    THEN NoAttributes
    ELSE [headers |-> state_headers[r]]

----------------------------------------------------------------------------
(* auth_middleware, one action per stretch between two awaits              *)

AuthInit ==
    /\ verifier \in Verifiers
    /\ pc = [r \in ReqIds |-> "idle"]
    /\ request = [r \in ReqIds |-> NoRequest]
    /\ response_auth = [r \in ReqIds |-> NoneDict]
    /\ state_headers = [r \in ReqIds |-> NoneDict]
    /\ verifier_call = [r \in ReqIds |-> NoneDict]
    /\ verdict = [r \in ReqIds |-> NoOutcome]
    /\ handler_out = [r \in ReqIds |-> NoOutcome]
    /\ response = [r \in ReqIds |-> NoResponse]
    /\ events = [r \in ReqIds |-> << >>]

\* DIDKeyManager.__init__: the directory exists and nothing has been saved
DidInit ==
    /\ did_files = [f \in {} |-> NoneDict]
    /\ did_saved = << >>
    /\ did_result = NoOutcome

\* The files shipped in the API files directory
ShippedFiles == { "external-interface.json", "nl-interface.yaml" }

\* No file route has been called
FilesInit ==
    /\ api_files = ShippedFiles
    /\ file_result = NoOutcome

\* No JSON-RPC call has been made
RpcInit == rpc_result = NoOutcome

\* An LLMLocalAgent whose run has not been called
LlmInit ==
    /\ llm_pc = "idle"
    /\ llm_messages = << >>
    /\ llm_pending = << >>
    /\ llm_completions = 0
    /\ llm_result = NoOutcome

\* An ANPAgentClient as constructed: no authenticator, nothing sent
ClientInit ==
    /\ client_pc = "idle"
    /\ client_authenticator = FALSE
    /\ client_nonce = 0
    /\ client_calls = 0
    /\ client_sent = << >>
    /\ client_responses = << >>
    /\ client_result = NoOutcome

\* The example programs before they are used
ExampleInit == LlmInit /\ ClientInit

\* Everything but the middleware as the process starts
RestInit ==
    /\ DidInit
    /\ FilesInit
    /\ RpcInit
    /\ ExampleInit

Init ==
    /\ AuthInit
    /\ exempt_table = EXEMPT_PATHS
    /\ RestInit

\* auth_middleware returns the response of `out`, or `out` is an exception
\* that leaves auth_middleware
Complete(r, out, evs) ==
    IF out.kind = "return"
    THEN /\ pc' = [pc EXCEPT ![r] = "done"]
         /\ response' = [response EXCEPT ![r] = out.value]
         /\ events' = [events EXCEPT ![r] = evs \o <<"response">>]
    ELSE /\ pc' = [pc EXCEPT ![r] = "raised"]
         /\ response' = response
         /\ events' = [events EXCEPT ![r] = evs \o <<"propagated">>]

\* InvokeCallNext keeping response_auth in one module-level variable that
\* every pass writes and reads
InvokeCallNextSharedAuth(r, auth, headers, evs) ==
    /\ response_auth' = [q \in ReqIds |-> auth]
    /\ state_headers' = [state_headers EXCEPT ![r] = headers]
    /\ pc' = [pc EXCEPT ![r] = "handling"]
    /\ events' = [events EXCEPT ![r] = evs \o <<"call_next">>]
    /\ response' = response

\* InvokeCallNext without the assignment to request.state.headers
InvokeCallNextNoState(r, auth, headers, evs) ==
    /\ response_auth' = [response_auth EXCEPT ![r] = auth]
    /\ state_headers' = state_headers
    /\ pc' = [pc EXCEPT ![r] = "handling"]
    /\ events' = [events EXCEPT ![r] = evs \o <<"call_next">>]
    /\ response' = response

\* authenticate_request returned `auth`: the body of auth_middleware up to
\* `await call_next(request)`
InvokeCallNext(r, auth, headers, evs) ==
    /\ response_auth' = [response_auth EXCEPT ![r] = auth]
    /\ state_headers' = [state_headers EXCEPT ![r] = headers]
    /\ pc' = [pc EXCEPT ![r] = "handling"]
    /\ events' = [events EXCEPT ![r] = evs \o <<"call_next">>]
    /\ response' = response

\* A request enters auth_middleware: authenticate_request runs the exemption
\* loop and, for a path that is not exempt, verify_auth_header up to the
\* call of the external verifier
Enter(r, requests) ==
    /\ pc[r] = "idle"
    /\ \E req \in requests :
         LET entry == AdapterEntry(req)
         IN  /\ request' = [request EXCEPT ![r] = req]
             /\ IF IsExempt(UrlPath(req))
                THEN /\ InvokeCallNext(r, NoneDict, req.headers,
                                       <<"exemption_check">>)
                     /\ UNCHANGED verifier_call
                ELSE IF entry.kind = "raise"
                THEN /\ Complete(r, TryExcept(entry),
                                 <<"exemption_check", "adapter">>)
                     /\ UNCHANGED <<response_auth, state_headers, verifier_call>>
                ELSE /\ pc' = [pc EXCEPT ![r] = "verifying"]
                     /\ verifier_call' = [verifier_call EXCEPT ![r] =
                            [auth_header |-> entry.auth_header,
                             domain |-> entry.domain]]
                     /\ events' = [events EXCEPT ![r] =
                                     <<"exemption_check", "adapter", "verifier">>]
                     /\ UNCHANGED <<response_auth, state_headers, response>>
    /\ UNCHANGED <<verifier, exempt_table, verdict, handler_out, besideAuth>>

AuthMiddlewareStart(r) == Enter(r, SerialRequests)

\* The external verifier returns or raises: the rest of verify_auth_header
\* and of authenticate_request, then the body of auth_middleware up to
\* call_next, or its except clauses
VerifierCompletes(r) ==
    /\ pc[r] = "verifying"
    /\ LET call == verifier_call[r]
       IN  \E o \in VerifierOutcomes(verifier, call.auth_header, call.domain) :
             LET res == AdapterResult(o)
             IN  /\ verdict' = [verdict EXCEPT ![r] = o]
                 /\ IF res.kind = "return"
                    THEN InvokeCallNext(r, res.value, request[r].headers,
                                        events[r] \o <<"verified">>)
                    ELSE /\ Complete(r, TryExcept(res), events[r] \o <<"rejected">>)
                         /\ UNCHANGED <<response_auth, state_headers>>
    /\ UNCHANGED <<verifier, exempt_table, request, verifier_call,
                   handler_out, besideAuth>>

\* call_next returns a response or raises: the rest of auth_middleware
CallNextCompletes(r) ==
    /\ pc[r] = "handling"
    /\ \E h \in CallNextOutcomes(request[r]) :
         LET res == IF h.kind = "return"
                    THEN Returned(AttachAuthorization(response_auth[r],
                                      request[r].headers, h.value))
                    ELSE h
         IN  /\ handler_out' = [handler_out EXCEPT ![r] = h]
             /\ Complete(r, TryExcept(res), events[r])
    /\ UNCHANGED <<verifier, exempt_table, request, response_auth,
                   state_headers, verifier_call, verdict, besideAuth>>

\* The response has been sent; the next request is served
RequestEnds(r) ==
    /\ pc[r] \in {"done", "raised"}
    /\ pc' = [pc EXCEPT ![r] = "idle"]
    /\ request' = [request EXCEPT ![r] = NoRequest]
    /\ response_auth' = [response_auth EXCEPT ![r] = NoneDict]
    /\ state_headers' = [state_headers EXCEPT ![r] = NoneDict]
    /\ verifier_call' = [verifier_call EXCEPT ![r] = NoneDict]
    /\ verdict' = [verdict EXCEPT ![r] = NoOutcome]
    /\ handler_out' = [handler_out EXCEPT ![r] = NoOutcome]
    /\ response' = [response EXCEPT ![r] = NoResponse]
    /\ events' = [events EXCEPT ![r] = << >>]
    /\ UNCHANGED <<verifier, exempt_table, besideAuth>>

Next ==
    \E r \in Serial :
        \/ AuthMiddlewareStart(r)
        \/ VerifierCompletes(r)
        \/ CallNextCompletes(r)
        \/ RequestEnds(r)

Spec == Init /\ [][Next]_vars

\* The verifier and the downstream handler each return or raise
FairSpec ==
    /\ Spec
    /\ \A r \in Serial : WF_vars(VerifierCompletes(r))
    /\ \A r \in Serial : WF_vars(CallNextCompletes(r))

\* Two passes of auth_middleware in progress at once, interleaved at their
\* awaits
ConcurrentStart(r) == Enter(r, ConcurrentRequests)

ConcurrentNext ==
    \E r \in ReqIds :
        \/ ConcurrentStart(r)
        \/ VerifierCompletes(r)
        \/ CallNextCompletes(r)
        \/ RequestEnds(r)

ConcurrentSpec == Init /\ [][ConcurrentNext]_vars

\* authenticate_request over any exempt table: the process starts with a
\* table of up to MaxTableLen entries and serves requests for paths at, under,
\* beside and away from those entries
MaxTableLen == 2

TableEntries == { "/", "/docs", "/static/", "/health" }

Tables == UNION { [1..n -> TableEntries] : n \in 0..MaxTableLen }

MatchPaths ==
    { "/", "/docs", "/docs/x", "/docsx", "/static/x.png", "/static",
      "/static/", "/health", "/healthz", "/nonexistent" }

MatchRequests ==
    { MakeRequest("GET", path, "", auth, "testserver") :
          path \in MatchPaths, auth \in {NoneStr, "Bearer test-mock-jwt-token"} }

MatchInit ==
    /\ AuthInit
    /\ exempt_table \in Tables
    /\ RestInit

MatchStart(r) == Enter(r, MatchRequests)

MatchNext ==
    \E r \in Serial :
        \/ MatchStart(r)
        \/ VerifierCompletes(r)
        \/ CallNextCompletes(r)
        \/ RequestEnds(r)

MatchSpec == MatchInit /\ [][MatchNext]_vars

----------------------------------------------------------------------------
(* DIDKeyManager: DID documents kept as files of did_document_path         *)

\* str.replace for a one-character `old`, from position i on
RECURSIVE ReplaceFrom(_, _, _, _)
ReplaceFrom(s, old, new, i) ==
    IF i > Len(s) THEN ""
    ELSE (IF SubSeq(s, i, i) = old THEN new ELSE SubSeq(s, i, i))
         \o ReplaceFrom(s, old, new, i + 1)

Replace(s, old, new) == ReplaceFrom(s, old, new, 1)

\* safe_filename, followed by ".json"
SafeFilename(did_identifier) ==
    Replace(Replace(did_identifier, ":", "_"), "/", "_") \o ".json"

\* json.dumps of a document with the keys "id" and "created"
JsonDumps(document) ==
    "{\"id\": \"" \o document.id \o "\", \"created\": \""
        \o document.created \o "\"}"

\* The text between the n-th and the (n+1)-th double quote of `text`
Quoted(text, n) ==
    LET quotes == { i \in 1..Len(text) : SubSeq(text, i, i) = "\"" }
        Nth(k) == CHOOSE i \in quotes :
                      Cardinality({ j \in quotes : j < i }) = k - 1
    IN  SubSeq(text, Nth(n) + 1, Nth(n + 1) - 1)

\* json.load of such a text
JsonLoad(text) == [id |-> Quoted(text, 3), created |-> Quoted(text, 7)]

FileNotFoundError(did_identifier) ==
    [type |-> "FileNotFoundError",
     message |-> "DID document not found: " \o did_identifier]

\* Identifiers as create_did_wba_document builds them from a hostname and
\* path segments
DidIdentifiers ==
    { "did:wba:example.com", "did:wba:example.com:user:alice",
      "did:wba:example.com:user_alice" }

DidDocuments ==
    [id : DidIdentifiers, created : {"2025-01-01", "2025-06-01"}]

\* At most MaxSaved documents are saved
MaxSaved == 3

\* _save_did_document(did_document)
SaveDidDocument ==
    /\ Len(did_saved) < MaxSaved
    /\ \E did_document \in DidDocuments :
         LET did_path == SafeFilename(did_document.id)
         IN  /\ did_files' = [f \in DOMAIN did_files \cup {did_path} |->
                                 IF f = did_path THEN JsonDumps(did_document)
                                 ELSE did_files[f]]
             /\ did_saved' = Append(did_saved, did_document)
    /\ UNCHANGED <<did_result, besideDid>>

\* get_did_document(did_identifier)
GetDidDocument ==
    /\ \E did_identifier \in DidIdentifiers :
         LET did_path == SafeFilename(did_identifier)
             outcome == IF did_path \notin DOMAIN did_files
                        THEN Raised(FileNotFoundError(did_identifier))
                        ELSE Returned(JsonLoad(did_files[did_path]))
         IN  did_result' = [kind |-> "get",
                            did_identifier |-> did_identifier,
                            saved |-> Len(did_saved),
                            outcome |-> outcome]
    /\ UNCHANGED <<did_files, did_saved, besideDid>>

DidNext == SaveDidDocument \/ GetDidDocument

DidSpec == Init /\ [][DidNext]_vars

----------------------------------------------------------------------------
(* api_router.get_json_file and yaml_router.get_yaml_file                  *)

\* File names a client may ask for
FileNames ==
    { "external-interface.json", "broken.json", "nl-interface.yaml",
      "spec.yml", "README.txt" }

\* json.load succeeds on the file
ValidJson(name) == name = "external-interface.json"

JSONDecodeError == [type |-> "JSONDecodeError", message |-> "Expecting value"]
OSError == [type |-> "OSError", message |-> "Input/output error"]

\* FastAPI's handling of a route's outcome: an HTTPException becomes a JSON
\* response with its status and detail
RouteResponse(outcome) ==
    IF outcome.kind = "raise" /\ outcome.exc.type = "HTTPException"
    THEN Returned(JSONResponse(outcome.exc.status_code,
                               [detail |-> outcome.exc.detail]))
    ELSE outcome

\* The try block of get_json_file; `readable` is whether open() and read
\* succeed.  The details are the source's Chinese texts in English.
JsonFileTry(json_file, files, readable) ==
    IF json_file \notin files
    THEN Raised(HTTPException(404, "API file does not exist"))
    ELSE IF ~EndsWith(json_file, ".json")
    THEN Raised(HTTPException(400, "only JSON API files are supported"))
    ELSE IF ~readable THEN Raised(OSError)
    ELSE IF ~ValidJson(json_file) THEN Raised(JSONDecodeError)
    ELSE Returned(JSONResponse(200, [file |-> json_file]))

\* The except clauses of get_json_file: json.JSONDecodeError, then Exception,
\* of which HTTPException is a subclass
JsonFileExcept(outcome) ==
    IF outcome.kind = "return" THEN outcome
    ELSE IF outcome.exc.type = "JSONDecodeError"
    THEN Raised(HTTPException(500, "JSON file format error"))
    ELSE Raised(HTTPException(500, "internal server error"))

\* The try block of get_yaml_file; FileResponse reads the file when the
\* response is sent, so `readable` plays no part here
YamlFileTry(yaml_file, files) ==
    IF yaml_file \notin files
    THEN Raised(HTTPException(404, "YAML file does not exist"))
    ELSE IF ~(EndsWith(yaml_file, ".yaml") \/ EndsWith(yaml_file, ".yml"))
    THEN Raised(HTTPException(400, "only YAML files are supported"))
    ELSE Returned(Response(200, [file |-> yaml_file],
                           ("content-type" :> "application/x-yaml")))

\* The except clause of get_yaml_file: Exception
YamlFileExcept(outcome) ==
    IF outcome.kind = "return" THEN outcome
    ELSE Raised(HTTPException(500, "internal server error"))

\* GET /agents/test/api/{json_file}
GetJsonFile ==
    /\ \E json_file \in FileNames, readable \in BOOLEAN :
         file_result' =
             [kind |-> "json", name |-> json_file, readable |-> readable,
              outcome |-> RouteResponse(JsonFileExcept(
                              JsonFileTry(json_file, api_files, readable)))]
    /\ UNCHANGED <<api_files, besideFiles>>

\* GET /agents/test/api_files/{yaml_file}
GetYamlFile ==
    /\ \E yaml_file \in FileNames :
         file_result' =
             [kind |-> "yaml", name |-> yaml_file, readable |-> TRUE,
              outcome |-> RouteResponse(YamlFileExcept(
                              YamlFileTry(yaml_file, api_files)))]
    /\ UNCHANGED <<api_files, besideFiles>>

\* The directory holds any of the files
FilesSpecInit ==
    /\ AuthInit
    /\ exempt_table = EXEMPT_PATHS
    /\ DidInit
    /\ RpcInit
    /\ ExampleInit
    /\ api_files \in SUBSET FileNames
    /\ file_result = NoOutcome

FilesNext == GetJsonFile \/ GetYamlFile

FilesSpec == FilesSpecInit /\ [][FilesNext]_vars

----------------------------------------------------------------------------
(* jsonrpc_router: JSON values                                             *)

\* Python values that json.loads produces.  JInf is a number too large for a
\* float, such as 1e999, which json.loads reads as inf.
JNull == [t |-> "null"]
JBool(b) == [t |-> "bool", b |-> b]
JStr(s) == [t |-> "str", s |-> s]
JNum(n) == [t |-> "num", n |-> n]
JInf == [t |-> "inf"]
JList(items) == [t |-> "list", items |-> items]
JObj(members) == [t |-> "obj", members |-> members]

\* What request.json() raised in place of a value
Unparseable == [t |-> "unparseable"]

\* d.get(key) on a dict
ObjGet(obj, key) ==
    IF key \in DOMAIN obj.members THEN obj.members[key] ELSE JNull

\* d.get(key, default) on a dict
DictGet(obj, key, default) ==
    IF key \in DOMAIN obj.members THEN obj.members[key] ELSE default

\* bool(value)
Truthy(v) ==
    CASE v.t = "null" -> FALSE
      [] v.t = "bool" -> v.b
      [] v.t = "str" -> v.s # ""
      [] v.t = "num" -> v.n # 0
      [] v.t = "list" -> v.items # << >>
      [] v.t = "obj" -> DOMAIN v.members # {}
      [] OTHER -> TRUE

\* json.dumps(value, allow_nan=False) succeeds: no non-finite number in it
RECURSIVE Renderable(_)
Renderable(v) ==
    CASE v.t = "inf" -> FALSE
      [] v.t = "list" -> \A i \in 1..Len(v.items) : Renderable(v.items[i])
      [] v.t = "obj" -> \A k \in DOMAIN v.members : Renderable(v.members[k])
      [] OTHER -> TRUE

ValueError(message) == [type |-> "ValueError", message |-> message]
TypeError(message) == [type |-> "TypeError", message |-> message]
AttributeError(message) == [type |-> "AttributeError", message |-> message]

\* _current_timestamp() and uuid.uuid4(): values that play no part here
Timestamp == JStr("<timestamp>")
ReportId == JStr("<uuid>")

\* `not params or key not in params`, then params[key]: the value of the
\* parameter, or the exception raised on the way
RequiredParam(params, key) ==
    CASE ~Truthy(params) ->
             Raised(ValueError("Missing required parameter: " \o key))
      [] Truthy(params) /\ params.t = "obj" ->
             IF key \in DOMAIN params.members
             THEN Returned(params.members[key])
             ELSE Raised(ValueError("Missing required parameter: " \o key))
      [] Truthy(params) /\ params.t = "list" ->
             IF \E i \in 1..Len(params.items) : params.items[i] = JStr(key)
             THEN Raised(TypeError("list indices must be integers or slices, not str"))
             ELSE Raised(ValueError("Missing required parameter: " \o key))
      [] Truthy(params) /\ params.t = "str" ->
             IF Contains(params.s, key)
             THEN Raised(TypeError("string indices must be integers"))
             ELSE Raised(ValueError("Missing required parameter: " \o key))
      [] OTHER -> Raised(TypeError("argument is not iterable"))

----------------------------------------------------------------------------
(* jsonrpc_router: the method handlers                                     *)

\* A finite float: the quotient of two integers
JFloat(numer, denom) == [t |-> "float", numer |-> numer, denom |-> denom]

\* isinstance(value, (int, float)); bool is a subclass of int
IsNumber(v) == v.t \in {"num", "inf", "float", "bool"}

\* _handle_echo after the parameter has been fetched
EchoMessage(message) ==
    IF message.kind = "raise" THEN message
    ELSE IF message.value.t # "str"
    THEN Raised(ValueError("Parameter 'message' must be a string"))
    ELSE IF Len(message.value.s) < 1 \/ Len(message.value.s) > 1000
    THEN Raised(ValueError(
             "Message length must be between 1 and 1000 characters"))
    ELSE Returned(JObj([originalMessage |-> message.value,
                        response |-> JStr("Echo: " \o message.value.s),
                        timestamp |-> Timestamp]))

handle_echo(params) == EchoMessage(RequiredParam(params, "message"))

\* The uptime is a clock reading that plays no part here
handle_get_status(params) ==
    Returned(JObj([status |-> JStr("online"),
                   version |-> JStr("1.0.0"),
                   uptime |-> JNum(0),
                   capabilities |-> JList(<<JStr("echo"), JStr("status-report"),
                                            JStr("openrpc-discovery")>>)]))

\* sum(numbers) over the finite numbers
RECURSIVE SumFrom(_, _)
SumFrom(items, i) ==
    IF i > Len(items) THEN 0
    ELSE (IF items[i].t = "num" THEN items[i].n ELSE 0) + SumFrom(items, i + 1)

\* total, count and average; inf as soon as one of the numbers is inf
SumResult(items, overflow) ==
    Returned(JObj(
        [sum |-> IF overflow THEN JInf ELSE JNum(SumFrom(items, 1)),
         count |-> JNum(Len(items)),
         average |-> IF overflow THEN JInf
                     ELSE JFloat(SumFrom(items, 1), Len(items))]))

\* _handle_calculate_sum after the parameter has been fetched
SumNumbers(numbers) ==
    IF numbers.kind = "raise" THEN numbers
    ELSE IF numbers.value.t # "list"
    THEN Raised(ValueError("Parameter 'numbers' must be an array"))
    ELSE IF Len(numbers.value.items) < 1 \/ Len(numbers.value.items) > 100
    THEN Raised(ValueError("Array length must be between 1 and 100"))
    ELSE IF \E k \in 1..Len(numbers.value.items) :
                ~IsNumber(numbers.value.items[k])
    THEN Raised(ValueError("All array items must be numbers"))
    ELSE SumResult(numbers.value.items,
                   \E k \in 1..Len(numbers.value.items) :
                       numbers.value.items[k].t = "inf")

handle_calculate_sum(params) == SumNumbers(RequiredParam(params, "numbers"))

\* str.isdigit()
IsDigit(s) ==
    /\ s # ""
    /\ \A i \in 1..Len(s) : Contains("0123456789", SubSeq(s, i, i))

\* phone.replace("+", "").replace("-", "").replace(" ", "")
StripPhone(phone) == Replace(Replace(Replace(phone, "+", ""), "-", ""), " ", "")

\* The issue appended for a field, if any
Issue(present, valid, field, message) ==
    IF present /\ ~valid
    THEN <<JObj([field |-> JStr(field), message |-> JStr(message)])>>
    ELSE << >>

\* The four checks of _handle_validate_data, in their order
IssuesOf(d) ==
    Issue("email" \in DOMAIN d,
          d["email"].t = "str" /\ Contains(d["email"].s, "@"),
          "email", "Invalid email format")
    \o Issue("phone" \in DOMAIN d,
             d["phone"].t = "str" /\ IsDigit(StripPhone(d["phone"].s)),
             "phone", "Invalid phone number format")
    \o Issue("age" \in DOMAIN d,
             d["age"].t = "num" /\ d["age"].n >= 0 /\ d["age"].n <= 150,
             "age", "Age must be between 0 and 150")
    \o Issue("name" \in DOMAIN d,
             d["name"].t = "str" /\ Len(d["name"].s) >= 1
                 /\ Len(d["name"].s) <= 100,
             "name", "Name must be between 1 and 100 characters")

ValidationResult(issues) ==
    Returned(JObj([isValid |-> JBool(issues = << >>),
                   issues |-> JList(issues),
                   timestamp |-> Timestamp]))

\* _handle_validate_data after the parameter has been fetched
ValidateData(data) ==
    IF data.kind = "raise" THEN data
    ELSE IF data.value.t # "obj"
    THEN Raised(ValueError("Parameter 'data' must be an object"))
    ELSE ValidationResult(IssuesOf(data.value.members))

handle_validate_data(params) == ValidateData(RequiredParam(params, "data"))

\* params.get("format", "json"), replaced by "json" when it is not a format
FormatType(given) ==
    IF given.t = "str" /\ given.s \in {"json", "html", "pdf", "markdown"}
    THEN given.s ELSE "json"

\* The content in the format; for "json" the str() of a dict whose metadata
\* and attachments are the defaults
FormattedContent(format_type, title, content) ==
    CASE format_type = "json" ->
             "{'title': '" \o title \o "', 'content': '" \o content
             \o "', 'metadata': {}, 'attachments': []}"
      [] format_type = "html" ->
             "<html><head><title>" \o title \o "</title></head><body><h1>"
             \o title \o "</h1><p>" \o content \o "</p></body></html>"
      [] format_type = "markdown" -> "# " \o title \o "\n\n" \o content
      [] OTHER -> "PDF: " \o title \o "\n" \o content

Report(format_type, formatted_content) ==
    Returned(JObj([reportId |-> ReportId,
                   content |-> JStr(formatted_content),
                   format |-> JStr(format_type),
                   generatedAt |-> Timestamp,
                   size |-> JNum(Len(formatted_content))]))

\* The checks of the report request, then the report
GenerateReport(rr, format_type) ==
    IF "title" \notin DOMAIN rr \/ "content" \notin DOMAIN rr
    THEN Raised(ValueError("Missing required fields: title and content"))
    ELSE IF rr["title"].t # "str" \/ Len(rr["title"].s) < 3
            \/ Len(rr["title"].s) > 120
    THEN Raised(ValueError("Title must be between 3 and 120 characters"))
    ELSE IF rr["content"].t # "str"
    THEN Raised(ValueError("Content must be a string"))
    ELSE Report(format_type,
                FormattedContent(format_type, rr["title"].s, rr["content"].s))

\* _handle_generate_report after the parameter has been fetched
ReportRequest(params, report_request) ==
    IF report_request.kind = "raise" THEN report_request
    ELSE IF report_request.value.t # "obj"
    THEN Raised(ValueError("Parameter 'reportRequest' must be an object"))
    ELSE GenerateReport(report_request.value.members,
                        FormatType(DictGet(params, "format", JStr("json"))))

handle_generate_report(params) ==
    ReportRequest(params, RequiredParam(params, "reportRequest"))

----------------------------------------------------------------------------
(* jsonrpc_router: the two endpoints                                       *)

create_error_response(request_id, code, message, data) ==
    JObj([jsonrpc |-> JStr("2.0"),
          error |-> JObj([code |-> JNum(code),
                          message |-> JStr(message),
                          data |-> data]),
          id |-> request_id])

create_success_response(request_id, result) ==
    JObj([jsonrpc |-> JStr("2.0"), result |-> result, id |-> request_id])

\* JSONResponse(content=...): the constructor renders the content with
\* json.dumps(allow_nan=False), which raises ValueError for a non-finite number
RenderedResponse(content) ==
    IF Renderable(content)
    THEN Returned(JSONResponse(200, content))
    ELSE Raised(ValueError("Out of range float values are not JSON compliant"))

\* str(value) inside an f-string
PyStr(v) ==
    CASE v.t = "str" -> v.s
      [] v.t = "bool" -> IF v.b THEN "True" ELSE "False"
      [] v.t = "null" -> "None"
      [] OTHER -> "inf"

\* The methods each endpoint serves
Served(endpoint) ==
    IF endpoint = "inline" THEN {"echo", "getStatus"}
    ELSE {"calculateSum", "validateData", "generateReport"}

\* The if/elif chain of an endpoint for a method it serves
CallHandler(method, params) ==
    CASE method = "echo" -> handle_echo(params)
      [] method = "getStatus" -> handle_get_status(params)
      [] method = "calculateSum" -> handle_calculate_sum(params)
      [] method = "validateData" -> handle_validate_data(params)
      [] OTHER -> handle_generate_report(params)

IsServed(endpoint, method) == method.t = "str" /\ method.s \in Served(endpoint)

\* What the method handler did for this body, NoOutcome when none was called
HandlerCalled(endpoint, body) ==
    IF /\ body.t = "obj"
       /\ ObjGet(body, "jsonrpc") = JStr("2.0")
       /\ Truthy(ObjGet(body, "method"))
       /\ IsServed(endpoint, ObjGet(body, "method"))
    THEN CallHandler(ObjGet(body, "method").s, ObjGet(body, "params"))
    ELSE NoOutcome

\* The body of the inner try statement: the dispatch and the success response
InnerBody(endpoint, method, request_id, handled) ==
    IF ~IsServed(endpoint, method)
    THEN RenderedResponse(create_error_response(request_id, -32601,
             "Method not found",
             JStr("Method '" \o PyStr(method) \o "' not found")))
    ELSE IF handled.kind = "raise" THEN handled
    ELSE RenderedResponse(create_success_response(request_id, handled.value))

\* The clauses `except ValueError` and `except Exception` of the inner try
InnerExcept(request_id, tried) ==
    IF tried.kind = "return" THEN tried
    ELSE IF tried.exc.type = "ValueError"
    THEN RenderedResponse(create_error_response(request_id, -32602,
             "Invalid params", JStr(tried.exc.message)))
    ELSE RenderedResponse(create_error_response(request_id, -32603,
             "Internal error", JStr(tried.exc.message)))

InnerTry(endpoint, method, params, request_id) ==
    InnerExcept(request_id,
                InnerBody(endpoint, method, request_id,
                          CallHandler(method.s, params)))

\* The outer try statement once jsonrpc is known to be "2.0"
Versioned(endpoint, method, params, request_id) ==
    IF ~Truthy(method)
    THEN RenderedResponse(create_error_response(request_id, -32600,
             "Invalid Request", JStr("Missing method")))
    ELSE InnerTry(endpoint, method, params, request_id)

\* The outer try statement without its except clause
OuterTry(endpoint, body) ==
    IF body.t = "unparseable" THEN Raised(JSONDecodeError)
    ELSE IF body.t # "obj"
    THEN Raised(AttributeError("object has no attribute 'get'"))
    ELSE IF ObjGet(body, "jsonrpc") # JStr("2.0")
    THEN RenderedResponse(create_error_response(ObjGet(body, "id"), -32600,
             "Invalid Request", JStr("JSON-RPC version must be 2.0")))
    ELSE Versioned(endpoint, ObjGet(body, "method"), ObjGet(body, "params"),
                   ObjGet(body, "id"))

\* The `except Exception` of the outer try statement
OuterExcept(tried) ==
    IF tried.kind = "return" THEN tried
    ELSE RenderedResponse(create_error_response(JNull, -32700,
             "Parse error", JStr("Invalid JSON")))

\* handle_inline_jsonrpc and handle_external_jsonrpc, which differ in the
\* methods they serve
HandleJsonRpc(endpoint, body) == OuterExcept(OuterTry(endpoint, body))

handle_inline_jsonrpc(body) == HandleJsonRpc("inline", body)
handle_external_jsonrpc(body) == HandleJsonRpc("external", body)

\* Values of the members of a request body; JNull stands for a member that
\* is absent or null, which body.get does not tell apart
RpcVersions == { JNull, JStr("2.0"), JStr("1.0"), JNum(2) }

RpcMethods ==
    { JNull, JStr(""), JStr("echo"), JStr("getStatus"), JStr("calculateSum"),
      JStr("validateData"), JStr("generateReport"), JStr("unknown"),
      JBool(TRUE) }

RpcParams ==
    { JNull,
      JObj([message |-> JStr("hi")]),
      JObj([message |-> JStr("")]),
      JList(<<JStr("message")>>),
      JNum(5),
      JObj([numbers |-> JList(<<JNum(1), JNum(3)>>)]),
      JObj([numbers |-> JList(<<JNum(1), JInf>>)]),
      JObj([numbers |-> JStr("1,3")]),
      JObj([data |-> JObj([email |-> JStr("a@example.com"),
                           phone |-> JStr("+1 555-0100"),
                           age |-> JNum(200)])]),
      JObj([reportRequest |-> JObj([title |-> JStr("Quarterly"),
                                    content |-> JStr("ok")]),
            format |-> JStr("markdown")]) }

RpcIds == { JNull, JNum(1), JStr("abc"), JInf }

\* The bodies sent: text that is not JSON, JSON that is not an object, and
\* objects with the four members
RpcBodies ==
    { Unparseable, JList(<<JNum(1)>>), JStr("echo") }
    \cup
    { JObj([jsonrpc |-> version, method |-> method, params |-> params,
            id |-> id]) :
          version \in RpcVersions, method \in RpcMethods,
          params \in RpcParams, id \in RpcIds }

\* POST /api/test/jsonrpc
HandleInlineJsonRpc ==
    /\ rpc_result = NoOutcome
    /\ \E body \in RpcBodies :
         rpc_result' = [kind |-> "inline", body |-> body,
                        handler |-> HandlerCalled("inline", body),
                        outcome |-> handle_inline_jsonrpc(body)]
    /\ UNCHANGED besideRpc

\* POST /api/external/jsonrpc
HandleExternalJsonRpc ==
    /\ rpc_result = NoOutcome
    /\ \E body \in RpcBodies :
         rpc_result' = [kind |-> "external", body |-> body,
                        handler |-> HandlerCalled("external", body),
                        outcome |-> handle_external_jsonrpc(body)]
    /\ UNCHANGED besideRpc

\* The response has been sent
RpcResponseSent ==
    /\ rpc_result # NoOutcome
    /\ rpc_result' = NoOutcome
    /\ UNCHANGED besideRpc

RpcNext == HandleInlineJsonRpc \/ HandleExternalJsonRpc \/ RpcResponseSent

RpcSpec == Init /\ [][RpcNext]_vars

----------------------------------------------------------------------------
(* Vocabulary of the properties                                            *)

\* Number of occurrences of event e in evs
Count(evs, e) == Cardinality({i \in 1..Len(evs) : evs[i] = e})

Has(evs, e) == \E i \in 1..Len(evs) : evs[i] = e

\* Position of the first occurrence of e in evs, 0 when there is none
Pos(evs, e) ==
    IF Has(evs, e) THEN CHOOSE i \in 1..Len(evs) :
                            evs[i] = e /\ \A j \in 1..(i - 1) : evs[j] # e
    ELSE 0

InFlight(r) == pc[r] # "idle"

\* The path matches an entry of the exempt-path table
TableExempt(path) ==
    \E i \in 1..Len(EXEMPT_PATHS) : EntryMatches(EXEMPT_PATHS[i], path)

Protected(r) == InFlight(r) /\ ~TableExempt(request[r].path)
Exempted(r) == InFlight(r) /\ TableExempt(request[r].path)

NoAuthorization(r) == "authorization" \notin DOMAIN request[r].headers

VerifiedOk(r) == verdict[r].kind = "return"

----------------------------------------------------------------------------
(* C1                                                                      *)

\* C1: on a path that is not exempt, call_next is invoked only after the
\* exemption check has run and the verifier has accepted this request: the
\* steps come in the order exemption check, verifier call, success, call_next.
C1_HandlerOnlyAfterVerification ==
    \A r \in ReqIds :
        (Protected(r) /\ Has(events[r], "call_next")) =>
            /\ VerifiedOk(r)
            /\ response_auth[r] = verdict[r].value
            /\ events[r][1] = "exemption_check"
            /\ Pos(events[r], "exemption_check") < Pos(events[r], "verifier")
            /\ Pos(events[r], "verifier") < Pos(events[r], "verified")
            /\ Pos(events[r], "verified") < Pos(events[r], "call_next")

C1_Witness ==
    \E r \in ReqIds :
        /\ Protected(r)
        /\ pc[r] = "handling"
        /\ VerifiedOk(r)

----------------------------------------------------------------------------
(* C2                                                                      *)

\* C2: a request to a path that is not exempt and that carries no
\* Authorization header is answered with 401 without reaching the downstream
\* application, whether or not a route exists for the path.
C2_MissingHeaderIs401 ==
    \A r \in ReqIds :
        (Protected(r) /\ NoAuthorization(r)) =>
            /\ pc[r] = "done"
            /\ response[r].status_code = 401
            /\ ~Has(events[r], "call_next")

\* An unknown protected path without the header: 401, not the 404 of routing
C2_Witness ==
    \E r \in ReqIds :
        /\ Protected(r) /\ NoAuthorization(r)
        /\ ~RouteExists(request[r].path)
        /\ pc[r] = "done"
        /\ response[r].status_code = 401

----------------------------------------------------------------------------
(* C3                                                                      *)

\* C3: a request whose path matches an entry of the exempt-path table never
\* causes verify_auth_header or the external verifier to be invoked, with or
\* without an Authorization header.
C3_ExemptNeverVerified ==
    \A r \in ReqIds :
        Exempted(r) =>
            /\ ~Has(events[r], "adapter")
            /\ ~Has(events[r], "verifier")
            /\ verdict[r] = NoOutcome
            /\ pc[r] # "verifying"

C3_Witness ==
    \E r \in ReqIds :
        /\ Exempted(r)
        /\ ~NoAuthorization(r)
        /\ pc[r] = "done"
        /\ handler_out[r].kind = "return"

----------------------------------------------------------------------------
(* C4                                                                      *)

\* C4: a GET of /agents/test/ad.json without an Authorization header is
\* rejected with 401 and a JSON body that has a detail key.
C4_AgentDescriptionRequiresAuth ==
    \A r \in ReqIds :
        ( /\ pc[r] = "done"
          /\ request[r].path = "/agents/test/ad.json"
          /\ NoAuthorization(r) ) =>
            /\ response[r].status_code = 401
            /\ "detail" \in DOMAIN response[r].body

----------------------------------------------------------------------------
(* C5                                                                      *)

TypedRejection(r) ==
    /\ verdict[r].kind = "raise"
    /\ verdict[r].exc.type = "DidWbaVerifierError"

\* C5: when the external verifier rejects a request to a path that is not
\* exempt with its typed error (status s, message m), the response has exactly
\* status s and the JSON body {"detail": m}.
C5_TypedErrorPassedThrough ==
    \A r \in ReqIds :
        (Protected(r) /\ TypedRejection(r)) =>
            /\ pc[r] = "done"
            /\ response[r].status_code = verdict[r].exc.status_code
            /\ response[r].body = [detail |-> verdict[r].exc.message]

C5_Witness ==
    \E r \in ReqIds :
        /\ Protected(r) /\ TypedRejection(r)
        /\ verdict[r].exc.status_code = 403
        /\ response[r].status_code = 403

----------------------------------------------------------------------------
(* C6                                                                      *)

\* Header values that are not a well-formed credential: empty, a bare word,
\* Bearer with no or an empty token, an unsupported scheme, a malformed JWT
SyntacticallyInvalid ==
    { "", "InvalidFormat", "Bearer", "Bearer ", "Basic dGVzdA==",
      "Bearer not.a.jwt.at.all" }

InvalidHeader(r) ==
    /\ ~NoAuthorization(r)
    /\ request[r].headers["authorization"] \in SyntacticallyInvalid

----------------------------------------------------------------------------
(* C7                                                                      *)

\* At most one response so far, none before auth_middleware has returned,
\* one once it has, and no exception has left auth_middleware
OneResponse(r) ==
    /\ pc[r] # "raised"
    /\ Count(events[r], "response") <= 1
    /\ Count(events[r], "propagated") = 0
    /\ (pc[r] = "done") = (Count(events[r], "response") = 1)
    /\ (pc[r] = "done") = (response[r] # NoResponse)

\* C7: every request that enters auth_middleware ends with exactly one
\* response, on every path (exempt, verified, rejected, unexpected exception),
\* given that the verifier and the downstream handler each return or raise.
C7_ExactlyOneResponse ==
    /\ [](\A r \in ReqIds : OneResponse(r))
    /\ \A r \in Serial : (pc[r] # "idle") ~> (pc[r] = "done")

\* The handler of an exempt path raised and a response was still returned
C7_Witness ==
    \E r \in ReqIds :
        /\ Exempted(r)
        /\ handler_out[r].kind = "raise"
        /\ pc[r] = "done"
        /\ Count(events[r], "response") = 1

----------------------------------------------------------------------------
(* C8                                                                      *)

\* C8: within one pass for a path that is not exempt, verify_auth_header is
\* invoked exactly once and the external verifier at most once; after a
\* rejection nothing follows but the response.
C8_VerifiedExactlyOnce ==
    \A r \in ReqIds :
        Protected(r) =>
            /\ Count(events[r], "adapter") = 1
            /\ Count(events[r], "verifier") <= 1
            /\ Count(events[r], "verified") + Count(events[r], "rejected") <= 1
            /\ Has(events[r], "call_next") => Count(events[r], "verifier") = 1
            /\ Has(events[r], "rejected") =>
                  /\ pc[r] = "done"
                  /\ events[r][Len(events[r]) - 1] = "rejected"
                  /\ events[r][Len(events[r])] = "response"

C8_Witness ==
    \E r \in ReqIds :
        /\ Protected(r)
        /\ Has(events[r], "rejected")
        /\ Count(events[r], "verifier") = 1
        /\ pc[r] = "done"

----------------------------------------------------------------------------
(* C9, C10                                                                 *)

\* The verifier accepted the request, call_next returned a response and
\* auth_middleware has returned
AuthenticatedResponse(r) ==
    /\ Protected(r)
    /\ pc[r] = "done"
    /\ VerifiedOk(r)
    /\ handler_out[r].kind = "return"

BearerResult(r) ==
    /\ "token_type" \in DOMAIN verdict[r].value
    /\ verdict[r].value["token_type"] = "bearer"

----------------------------------------------------------------------------
(* C11                                                                     *)

----------------------------------------------------------------------------
(* C12                                                                     *)

\* The matching rule in the words of the specification
RuleMatches(entry, path) ==
    CASE entry = "/" -> path = "/"
      [] entry # "/" /\ EndsWith(entry, "/") -> StartsWith(path, entry)
      [] OTHER -> path = entry \/ StartsWith(path, entry \o "/")

RuleExempt(table, path) ==
    \E i \in 1..Len(table) : RuleMatches(table[i], path)

\* The pass was treated as exempt: the Verifier Adapter was not entered
TreatedAsExempt(r) == ~Has(events[r], "adapter")

\* C12: for every exempt table and every path, authenticate_request treats
\* the path as exempt exactly when some entry of the table matches it under
\* the rule: "/" matches only "/", an entry ending in "/" matches every path
\* that starts with it, and any other entry E matches E and every path that
\* starts with E + "/".
C12_ExemptIffRuleMatches ==
    \A r \in ReqIds :
        InFlight(r) =>
            (TreatedAsExempt(r) <=> RuleExempt(exempt_table, request[r].path))

\* "/docs/x" was exempted through "/docs", the second entry of the table
C12_Witness ==
    \E r \in ReqIds :
        /\ InFlight(r)
        /\ request[r].path = "/docs/x"
        /\ exempt_table = <<"/health", "/docs">>
        /\ TreatedAsExempt(r)

----------------------------------------------------------------------------
(* C13                                                                     *)

\* The path lies under an exempt prefix: below an entry ending in "/", or
\* below another entry followed by "/"
UnderExemptPrefix(path) ==
    \E i \in 1..Len(EXEMPT_PATHS) :
        LET prefix == IF EndsWith(EXEMPT_PATHS[i], "/") THEN EXEMPT_PATHS[i]
                      ELSE EXEMPT_PATHS[i] \o "/"
        IN  /\ EXEMPT_PATHS[i] # "/"
            /\ StartsWith(path, prefix)
            /\ path # prefix

\* C13: a request to a path under an exempt prefix is never answered with a
\* 401 of the middleware's making, whatever its Authorization header and
\* whatever the downstream handler does, raising included: a 401 it gets is
\* the handler's own response.
C13_ExemptPrefixNever401 ==
    \A r \in ReqIds :
        ( /\ InFlight(r)
          /\ UnderExemptPrefix(request[r].path)
          /\ pc[r] = "done"
          /\ response[r].status_code = 401 ) =>
            /\ handler_out[r].kind = "return"
            /\ handler_out[r].value.status_code = 401

----------------------------------------------------------------------------
(* C14                                                                     *)

UnexpectedVerifierError(r) ==
    /\ verdict[r].kind = "raise"
    /\ verdict[r].exc.type = "Exception"

\* The lower-cased message contains one of the five keywords
MentionsCredential(message) ==
    \E keyword \in {"authorization", "bearer", "didwba", "token", "format"} :
        Contains(Lower(message), keyword)

\* C14: an exception raised during verification that is not the verifier's
\* typed error becomes a response: 401 when its lower-cased message contains
\* one of 'authorization', 'bearer', 'didwba', 'token', 'format', 500
\* otherwise; it never leaves auth_middleware.
C14_UnexpectedErrorClassified ==
    \A r \in ReqIds :
        (InFlight(r) /\ UnexpectedVerifierError(r)) =>
            /\ pc[r] = "done"
            /\ ~Has(events[r], "call_next")
            /\ response[r].status_code =
                   IF MentionsCredential(verdict[r].exc.message) THEN 401 ELSE 500

\* A keyword in upper case is found all the same
C14_Witness ==
    \E r \in ReqIds :
        /\ InFlight(r) /\ UnexpectedVerifierError(r)
        /\ verdict[r].exc.message = "Unsupported Authorization FORMAT"
        /\ response[r].status_code = 401

----------------------------------------------------------------------------
(* C15                                                                     *)

\* The pass ended in the generic except clause: the verifier or the
\* downstream handler raised an exception that is not a typed one
UnexpectedHandled(r) ==
    /\ pc[r] = "done"
    /\ \/ UnexpectedVerifierError(r)
       \/ handler_out[r].kind = "raise" /\ handler_out[r].exc.type = "Exception"

\* C15: the body sent for an unexpected exception is a generic message that
\* does not depend on the exception's text: two passes that end in the
\* generic except clause with the same status (both of the 401 class or both
\* of the 500 class) send identical bodies.
C15_GenericBody ==
    \A r1, r2 \in ReqIds :
        ( /\ UnexpectedHandled(r1)
          /\ UnexpectedHandled(r2)
          /\ response[r1].status_code = response[r2].status_code ) =>
            response[r1].body = response[r2].body

----------------------------------------------------------------------------
(* C16                                                                     *)

\* call_next has just been invoked for a verified request to a protected path
HandlerInvokedVerified(r) ==
    /\ Protected(r)
    /\ VerifiedOk(r)
    /\ pc[r] = "handling"

----------------------------------------------------------------------------
(* C17                                                                     *)

\* C17: whether a request requires verification is a function of its URL
\* path alone: two requests with the same path get the same exemption
\* decision, whatever their query strings, methods and headers.
C17_DecisionByPathAlone ==
    \A r1, r2 \in ReqIds :
        ( /\ InFlight(r1)
          /\ InFlight(r2)
          /\ request[r1].path = request[r2].path ) =>
            (TreatedAsExempt(r1) <=> TreatedAsExempt(r2))

\* A protected path requested as a POST with a query string and credentials
\* goes to the Verifier Adapter like the plain GET without credentials
C17_Witness ==
    \E r1, r2 \in ReqIds :
        /\ r1 # r2
        /\ InFlight(r1) /\ InFlight(r2)
        /\ request[r1].path = request[r2].path
        /\ request[r1].query = "" /\ request[r2].query # ""
        /\ request[r1].method = "GET" /\ request[r2].method = "POST"
        /\ NoAuthorization(r1) /\ ~NoAuthorization(r2)
        /\ Protected(r1) /\ ~TreatedAsExempt(r1) /\ ~TreatedAsExempt(r2)

----------------------------------------------------------------------------
(* C18                                                                     *)

\* The response of a pass that runs alone, given its request, what the
\* verifier answered for it (if asked) and what the downstream handler
\* answered for it (if invoked)
AloneResponse(req, verifier_outcome, handler_outcome) ==
    LET entry == AdapterEntry(req)
        auth == AdapterResult(verifier_outcome)
    IN  IF TableExempt(req.path)
        THEN IF handler_outcome.kind = "return" THEN handler_outcome.value
             ELSE ExceptClauses(handler_outcome.exc)
        ELSE IF entry.kind = "raise" THEN ExceptClauses(entry.exc)
        ELSE IF auth.kind = "raise" THEN ExceptClauses(auth.exc)
        ELSE IF handler_outcome.kind = "raise"
        THEN ExceptClauses(handler_outcome.exc)
        ELSE AttachAuthorization(auth.value, req.headers, handler_outcome.value)

\* C18: under any interleaving of two passes, each pass is exempt or not, and
\* answers with the status, headers and body, that it would have alone; and
\* the exempt-path table is the one the process started with.
C18_PassesIndependent ==
    /\ exempt_table = EXEMPT_PATHS
    /\ \A r \in ReqIds :
          InFlight(r) =>
            /\ TreatedAsExempt(r) <=> TableExempt(request[r].path)
            /\ pc[r] # "raised"
            /\ pc[r] = "done" =>
                  response[r] =
                      AloneResponse(request[r], verdict[r], handler_out[r])

\* A verified pass and an exempt pass were both served: the first got its
\* authorization header, the second the response of its handler as it was
C18_Witness ==
    \E r1, r2 \in ReqIds :
        /\ r1 # r2
        /\ pc[r1] = "done" /\ pc[r2] = "done"
        /\ Protected(r1) /\ VerifiedOk(r1)
        /\ handler_out[r1].kind = "return"
        /\ "authorization" \in DOMAIN response[r1].headers
        /\ Exempted(r2)
        /\ handler_out[r2].kind = "return"
        /\ "authorization" \notin DOMAIN response[r2].headers

----------------------------------------------------------------------------
(* C20                                                                     *)

\* The saves of did_identifier among the first n documents saved
SavesOf(did_identifier, n) ==
    { i \in 1..n : did_saved[i].id = did_identifier }

Last(S) == CHOOSE i \in S : \A j \in S : j <= i

\* C20: DID document storage is a map keyed by DID identifier:
\* get_did_document(id) returns the document last saved for id, and raises
\* FileNotFoundError when no document was ever saved for id.
C20_StorageIsMapByIdentifier ==
    did_result.kind = "get" =>
        LET saves == SavesOf(did_result.did_identifier, did_result.saved)
        IN  IF saves = {}
            THEN did_result.outcome =
                     Raised(FileNotFoundError(did_result.did_identifier))
            ELSE did_result.outcome = Returned(did_saved[Last(saves)])

----------------------------------------------------------------------------
(* src/src/local_agent_use_llm.py: LLMLocalAgent                           *)

\* How many completions a run may request, and how many tool calls one
\* assistant message may carry
MaxCompletions == 2
MaxToolCalls == 2

EmptyObj == JObj([k \in {} |-> JNull])

GoodFetchArguments == "{\"url\": \"http://localhost:8000/agents/remote/ad.json\"}"
GoodExecuteArguments == "{\"tool_name\": \"greet\", \"arguments\": {}}"
TruncatedArguments == "{\"url\": "
ListArguments == "[]"

\* json.loads(text) for the argument texts of the tool calls
Loads(text) ==
    CASE text = "{}" -> Returned(EmptyObj)
      [] text = GoodFetchArguments ->
            Returned(JObj([url |->
                JStr("http://localhost:8000/agents/remote/ad.json")]))
      [] text = GoodExecuteArguments ->
            Returned(JObj([tool_name |-> JStr("greet"),
                           arguments |-> EmptyObj]))
      [] text = ListArguments -> Returned(JList(<< >>))
      [] OTHER -> Raised(JSONDecodeError)

\* json.dumps(value, ensure_ascii=False): the text is represented by the
\* value it encodes
Dumps(value) == [json |-> value]

\* {"error": message}
ErrorResult(message) == JObj([error |-> JStr(message)])

\* What an ANPCrawler call does: it returns what the remote agent sent, or
\* it raises
CrawlerOutcomes ==
    { Returned(JStr("<remote>")),
      Raised([type |-> "Exception", message |-> "All connection attempts failed"]) }

\* _handle_fetch_text(args), the crawler call ending as `crawl`
handle_fetch_text(args, crawl) ==
    IF args.t # "obj"
    THEN Raised(AttributeError("object has no attribute 'get'"))
    ELSE IF ObjGet(args, "url").t # "str"
    THEN Returned(ErrorResult("fetch_text requires a string 'url' field."))
    ELSE IF crawl.kind = "raise"
    THEN Returned(ErrorResult("fetch_text failed: " \o crawl.exc.message))
    ELSE Returned(JObj([content |-> crawl.value,
                        interfaces |-> JList(<< >>)]))

\* _handle_execute_tool_call(args), the crawler call ending as `crawl`
handle_execute_tool_call(args, crawl) ==
    IF args.t # "obj"
    THEN Raised(AttributeError("object has no attribute 'get'"))
    ELSE IF ObjGet(args, "tool_name").t # "str"
    THEN Returned(ErrorResult(
             "execute_tool_call requires 'tool_name' as string."))
    ELSE IF DictGet(args, "arguments", EmptyObj).t # "obj"
    THEN Returned(ErrorResult(
             "execute_tool_call requires 'arguments' as object."))
    ELSE IF crawl.kind = "raise"
    THEN Returned(ErrorResult(
             "execute_tool_call failed: " \o crawl.exc.message))
    ELSE Returned(JObj([result |-> crawl.value]))

\* _invoke_tool(tool_name, args)
invoke_tool(tool_name, args, crawl) ==
    IF tool_name = "fetch_text"
    THEN handle_fetch_text(args, crawl)
    ELSE IF tool_name = "execute_tool_call"
    THEN handle_execute_tool_call(args, crawl)
    ELSE Returned(ErrorResult("Unknown tool: " \o tool_name))

\* The try/except/else of the for loop, json.loads having ended as `parsed`
ToolResultOf(parsed, tool_name, crawl) ==
    IF parsed.kind = "raise"
    THEN Returned(ErrorResult(
             "Invalid JSON arguments: " \o parsed.exc.message))
    ELSE invoke_tool(tool_name, parsed.value, crawl)

\* tool_result of one pass of the for loop
ToolResult(tool_call, crawl) ==
    ToolResultOf(
        Loads(IF tool_call.function.arguments \in {NoneStr, ""}
              THEN "{}"
              ELSE tool_call.function.arguments),
        tool_call.function.name, crawl)

\* The message the for loop appends for a tool call
ToolMessage(tool_call, tool_result) ==
    [role |-> "tool",
     tool_call_id |-> tool_call.id,
     content |-> Dumps(tool_result)]

\* assistant_payload for the message of a completion
AssistantPayload(message) ==
    [role |-> "assistant"]
    @@ (IF message.content \notin {NoneStr, ""}
        THEN [content |-> message.content]
        ELSE [k \in {} |-> ""])
    @@ (IF message.tool_calls # << >>
        THEN [tool_calls |-> message.tool_calls]
        ELSE [k \in {} |-> ""])

\* The functions a completion may ask for
ToolFunctions ==
    { [name |-> "fetch_text", arguments |-> GoodFetchArguments],
      [name |-> "fetch_text", arguments |-> ""],
      [name |-> "fetch_text", arguments |-> TruncatedArguments],
      [name |-> "fetch_text", arguments |-> ListArguments],
      [name |-> "execute_tool_call", arguments |-> GoodExecuteArguments],
      [name |-> "search_web", arguments |-> "{}"] }

\* The ids the API gives to tool calls: no two calls of a run share one
ToolCallId(n) == "call_" \o <<"1", "2", "3", "4", "5", "6", "7", "8", "9">>[n]

\* The tool calls of the completion after `done` completions
ToolCalls(functions, done) ==
    [i \in 1..Len(functions) |->
        [id |-> ToolCallId(done * MaxToolCalls + i),
         type |-> "function",
         function |-> functions[i]]]

FunctionLists ==
    UNION { [1..n -> ToolFunctions] : n \in 1..MaxToolCalls }

\* choice.message of a completion: a final answer, or tool calls with or
\* without a text beside them
CompletionMessages(done) ==
    { [content |-> c, tool_calls |-> << >>] : c \in {NoneStr, "Done."} }
    \cup { [content |-> NoneStr, tool_calls |-> ToolCalls(fs, done)] :
               fs \in FunctionLists }
    \cup { [content |-> "Fetching.",
            tool_calls |-> ToolCalls(fs, done)] :
               fs \in [1..1 -> ToolFunctions] }

\* run(prompt) up to the first completion request
LlmRun ==
    /\ llm_pc = "idle"
    /\ \E prompt \in { "Greet the remote agent" } :
           llm_messages' =
               << [role |-> "system", content |-> "<system_prompt>"],
                  [role |-> "user", content |-> prompt] >>
    /\ llm_pc' = "completion"
    /\ UNCHANGED <<llm_pending, llm_completions, llm_result>>
    /\ UNCHANGED besideLlm

\* The completion arrives: the assistant message is appended and run
\* returns or enters the for loop
LlmCompletion ==
    /\ llm_pc = "completion"
    /\ llm_completions < MaxCompletions
    /\ \E message \in CompletionMessages(llm_completions) :
           /\ llm_messages' = Append(llm_messages, AssistantPayload(message))
           /\ IF message.tool_calls = << >>
              THEN /\ llm_pc' = "returned"
                   /\ llm_result' =
                          Returned(IF message.content = NoneStr
                                   THEN ""
                                   ELSE message.content)
                   /\ llm_pending' = << >>
              ELSE /\ llm_pc' = "tools"
                   /\ llm_result' = llm_result
                   /\ llm_pending' = message.tool_calls
    /\ llm_completions' = llm_completions + 1
    /\ UNCHANGED besideLlm

\* The completion request fails: the exception leaves run
LlmCompletionFails ==
    /\ llm_pc = "completion"
    /\ llm_completions < MaxCompletions
    /\ llm_pc' = "raised"
    /\ llm_result' = Raised([type |-> "APIError", message |-> "Connection error."])
    /\ llm_completions' = llm_completions + 1
    /\ UNCHANGED <<llm_messages, llm_pending>>
    /\ UNCHANGED besideLlm

\* One pass of the for loop, for the tool call `tool_call`, whose result is
\* `result`
LlmToolPass(tool_call, result) ==
    IF result.kind = "raise"
    THEN /\ llm_pc' = "raised"
         /\ llm_result' = result
         /\ UNCHANGED <<llm_messages, llm_pending>>
    ELSE /\ llm_messages' =
                Append(llm_messages, ToolMessage(tool_call, result.value))
         /\ llm_pending' = Tail(llm_pending)
         /\ llm_pc' = IF Tail(llm_pending) = << >> THEN "completion" ELSE "tools"
         /\ llm_result' = llm_result

LlmToolCall ==
    /\ llm_pc = "tools"
    /\ \E crawl \in CrawlerOutcomes :
           LlmToolPass(Head(llm_pending), ToolResult(Head(llm_pending), crawl))
    /\ UNCHANGED llm_completions
    /\ UNCHANGED besideLlm

LlmNext == LlmRun \/ LlmCompletion \/ LlmCompletionFails \/ LlmToolCall

LlmSpec == Init /\ [][LlmNext]_vars

----------------------------------------------------------------------------
(* examples/client_example.py: ANPAgentClient                              *)

\* How many get_agent_description calls a client makes
MaxCalls == 2

BaseUrl == "http://localhost:8000"

AgentPaths == { "/agents/test/ad.json", "/agents/test/api/external-interface.json" }

\* The responses the service may give to a GET
ClientResponses ==
    { [status_code |-> 200, json |-> TRUE],
      [status_code |-> 200, json |-> FALSE],
      [status_code |-> 401, json |-> TRUE],
      [status_code |-> 404, json |-> TRUE],
      [status_code |-> 500, json |-> FALSE] }

\* self.authenticator.get_auth_header(url, force_new=True): a header that
\* was not made before
AuthHeader(made) ==
    [Authorization |->
        "DIDWba nonce=" \o <<"1", "2", "3", "4", "5", "6", "7", "8", "9">>[made + 1]]

\* headers.update(auth_headers)
HeadersUpdate(headers, auth_headers) ==
    [k \in DOMAIN headers \cup DOMAIN auth_headers |->
        IF k \in DOMAIN auth_headers THEN auth_headers[k] ELSE headers[k]]

\* The headers of the first request
FirstHeaders(authenticator, made) ==
    IF authenticator
    THEN HeadersUpdate([ContentType |-> "application/json"], AuthHeader(made))
    ELSE [ContentType |-> "application/json"]

\* A client that retries a 401 whether or not it has an authenticator
RetryWantedNoAuthenticator(responses, authenticator) ==
    /\ Len(responses) = 1
    /\ responses[1].status_code = 401

\* `if response.status_code == 401 and self.authenticator`, which the code
\* evaluates once, on the first response
RetryWanted(responses, authenticator) ==
    /\ Len(responses) = 1
    /\ responses[1].status_code = 401
    /\ authenticator

\* response.raise_for_status(); return response.json()
ClientOutcome(resp) ==
    IF resp.status_code >= 400
    THEN Raised([type |-> "HTTPStatusError", status_code |-> resp.status_code])
    ELSE IF ~resp.json
    THEN Raised(JSONDecodeError)
    ELSE Returned([status_code |-> resp.status_code])

\* setup_authentication(did_document_path, private_key_path)
SetupAuthentication ==
    /\ client_pc = "idle"
    /\ ~client_authenticator
    /\ client_authenticator' = TRUE
    /\ UNCHANGED <<client_pc, client_nonce, client_calls, client_sent,
                   client_responses, client_result>>
    /\ UNCHANGED besideClient

\* get_agent_description(agent_path) up to the first `await self.client.get`
GetAgentDescription ==
    /\ client_pc = "idle"
    /\ client_calls < MaxCalls
    /\ \E agent_path \in AgentPaths :
           client_sent' =
               << [url |-> BaseUrl \o agent_path,
                   headers |-> FirstHeaders(client_authenticator, client_nonce)] >>
    /\ client_nonce' = IF client_authenticator
                       THEN client_nonce + 1
                       ELSE client_nonce
    /\ client_calls' = client_calls + 1
    /\ client_responses' = << >>
    /\ client_result' = NoOutcome
    /\ client_pc' = "awaiting"
    /\ UNCHANGED client_authenticator
    /\ UNCHANGED besideClient

\* The request with fresh authentication headers that follows a 401
RetryRequest(first, made) ==
    [url |-> first.url,
     headers |-> HeadersUpdate(first.headers, AuthHeader(made))]

\* What follows the arrival of a response, `responses` being the responses
\* of the call so far: the retry, or raise_for_status and the return
AfterResponse(responses) ==
    IF RetryWanted(responses, client_authenticator)
    THEN /\ client_sent' =
                Append(client_sent, RetryRequest(client_sent[1], client_nonce))
         /\ client_nonce' = client_nonce + 1
         /\ client_pc' = "awaiting"
         /\ client_result' = client_result
    ELSE /\ client_pc' = "done"
         /\ client_result' = ClientOutcome(responses[Len(responses)])
         /\ UNCHANGED <<client_sent, client_nonce>>

\* `await self.client.get(url, headers=headers)` gives a response
ClientGetCompletes ==
    /\ client_pc = "awaiting"
    /\ \E resp \in ClientResponses :
           /\ client_responses' = Append(client_responses, resp)
           /\ AfterResponse(Append(client_responses, resp))
    /\ UNCHANGED <<client_authenticator, client_calls>>
    /\ UNCHANGED besideClient

\* `await self.client.get(url, headers=headers)` raises: no connection, or
\* the timeout of the httpx client
ClientGetFails ==
    /\ client_pc = "awaiting"
    /\ client_pc' = "done"
    /\ client_result' = Raised([type |-> "ConnectError"])
    /\ UNCHANGED <<client_authenticator, client_nonce, client_calls,
                   client_sent, client_responses>>
    /\ UNCHANGED besideClient

\* The caller has the result of the call
ClientCallEnds ==
    /\ client_pc = "done"
    /\ client_pc' = "idle"
    /\ UNCHANGED <<client_authenticator, client_nonce, client_calls,
                   client_sent, client_responses, client_result>>
    /\ UNCHANGED besideClient

ClientNext ==
    \/ SetupAuthentication
    \/ GetAgentDescription
    \/ ClientGetCompletes
    \/ ClientGetFails
    \/ ClientCallEnds

\* Every request of the client ends, with a response or with an exception
ClientSpec ==
    /\ Init
    /\ [][ClientNext]_vars
    /\ WF_vars(ClientGetCompletes \/ ClientGetFails)

----------------------------------------------------------------------------
(* C21                                                                     *)

\* The Authorization header of the request, NoneStr when it carries none
AuthorizationOf(r) == Get(request[r].headers, "authorization", NoneStr)

\* C21: on a path that is not exempt, an absent or empty Authorization
\* header makes the Verifier Adapter fail with 401 "Missing authorization
\* header" without calling the external verifier; the external verifier is
\* called only with the request's header, and only when that is not empty.
C21_EmptyHeaderNotDelegated ==
    \A r \in ReqIds :
        Protected(r) =>
            /\ AuthorizationOf(r) \in {NoneStr, ""} =>
                  /\ verifier_call[r] = NoneDict
                  /\ pc[r] = "done"
                  /\ response[r].status_code = 401
                  /\ response[r].body = [detail |-> "Missing authorization header"]
            /\ verifier_call[r] # NoneDict =>
                  /\ verifier_call[r].auth_header = AuthorizationOf(r)
                  /\ verifier_call[r].auth_header \notin {NoneStr, ""}

\* An Authorization header that is present and empty was answered so
C21_Witness ==
    \E r \in ReqIds :
        /\ Protected(r)
        /\ AuthorizationOf(r) = ""
        /\ verifier_call[r] = NoneDict
        /\ response[r].status_code = 401

----------------------------------------------------------------------------
(* C22                                                                     *)

\* The position of the first occurrence of the one-character c in s, 0 when
\* there is none
IndexOf(s, c) ==
    IF \E i \in 1..Len(s) : SubSeq(s, i, i) = c
    THEN CHOOSE i \in 1..Len(s) :
             /\ SubSeq(s, i, i) = c
             /\ \A j \in 1..(i - 1) : SubSeq(s, j, j) # c
    ELSE 0

\* The Host value with its port suffix removed and nothing else changed: a
\* bracketed IPv6 literal keeps its brackets and what is between them
HostWithoutPort(host) ==
    IF StartsWith(host, "[") /\ IndexOf(host, "]") # 0
    THEN SubSeq(host, 1, IndexOf(host, "]"))
    ELSE IF IndexOf(host, ":") # 0
    THEN SubSeq(host, 1, IndexOf(host, ":") - 1)
    ELSE host

\* C22: the domain passed to the external verifier is the Host header of the
\* request with any port suffix removed and nothing else changed, and the
\* empty string when the request has no Host header.
C22_DomainIsHostWithoutPort ==
    \A r \in ReqIds :
        (InFlight(r) /\ verifier_call[r] # NoneDict) =>
            verifier_call[r].domain =
                IF "host" \in DOMAIN request[r].headers
                THEN HostWithoutPort(request[r].headers["host"])
                ELSE ""

----------------------------------------------------------------------------
(* C23                                                                     *)

\* C23: once the downstream handler has been invoked, the client receives
\* the handler's response (its status and its body): an error response of
\* the middleware's own making is only ever sent for a request whose handler
\* was not invoked.
C23_OwnErrorOnlyBeforeHandler ==
    \A r \in ReqIds :
        (pc[r] = "done" /\ Has(events[r], "call_next")) =>
            /\ handler_out[r].kind = "return"
            /\ response[r].status_code = handler_out[r].value.status_code
            /\ response[r].body = handler_out[r].value.body

----------------------------------------------------------------------------
(* C24                                                                     *)

\* The tables that hold the entries of `table` in another order
Reorderings(table) ==
    { [i \in 1..Len(table) |-> table[p[i]]] :
          p \in { q \in [1..Len(table) -> 1..Len(table)] :
                      \A i, j \in 1..Len(table) : q[i] = q[j] => i = j } }

\* C24: the exemption decision does not depend on the order of the entries
\* of the exempt-path table: what authenticate_request decided for the path
\* under the table in use is what its loop decides under every reordering of
\* that table.
C24_OrderIrrelevant ==
    \A r \in ReqIds :
        InFlight(r) =>
            \A reordered \in Reorderings(exempt_table) :
                TreatedAsExempt(r) <=>
                    (FirstMatch(reordered, UrlPath(request[r]), 1) # 0)

\* "/docs" was exempted by a table whose first entry, the root, does not
\* match it
C24_Witness ==
    \E r \in ReqIds :
        /\ InFlight(r)
        /\ exempt_table = <<"/", "/docs">>
        /\ request[r].path = "/docs"
        /\ TreatedAsExempt(r)
        /\ <<"/docs", "/">> \in Reorderings(exempt_table)

----------------------------------------------------------------------------
(* C25                                                                     *)

\* The names a file route accepts
AcceptedBy(kind, name) ==
    IF kind = "json" THEN EndsWith(name, ".json")
    ELSE EndsWith(name, ".yaml") \/ EndsWith(name, ".yml")

\* C25: get_json_file and get_yaml_file answer 404 for a file that does not
\* exist and 400 for a file that exists under a name of the wrong type; 500
\* is answered only for a failure to read or to parse the file.
C25_MissingIs404WrongTypeIs400 ==
    file_result.kind \in {"json", "yaml"} =>
        LET status == file_result.outcome.value.status_code
            exists == file_result.name \in api_files
            accepted == AcceptedBy(file_result.kind, file_result.name)
        IN  /\ file_result.outcome.kind = "return"
            /\ ~exists => status = 404
            /\ (exists /\ ~accepted) => status = 400
            /\ status = 500 =>
                  /\ exists /\ accepted /\ file_result.kind = "json"
                  /\ ~file_result.readable \/ ~ValidJson(file_result.name)

----------------------------------------------------------------------------
(* C26                                                                     *)

\* The error code of the response, 0 for a success result
CodeOf(resp) ==
    IF "error" \in DOMAIN resp.body.members
    THEN resp.body.members["error"].members["code"].n
    ELSE 0

\* The outcome the rules give for a call, by the first rule that applies
RuleCode(endpoint, body, handler) ==
    CASE body.t # "obj" -> -32700
      [] body.t = "obj" /\ ObjGet(body, "jsonrpc") # JStr("2.0") -> -32600
      [] body.t = "obj" /\ ObjGet(body, "jsonrpc") = JStr("2.0")
           /\ ObjGet(body, "method") \in {JNull, JStr("")} -> -32600
      [] body.t = "obj" /\ ObjGet(body, "jsonrpc") = JStr("2.0")
           /\ ObjGet(body, "method") \notin {JNull, JStr("")}
           /\ handler = NoOutcome -> -32601
      [] OTHER -> IF handler.kind = "return" THEN 0
                  ELSE IF handler.exc.type = "ValueError" THEN -32602
                  ELSE -32603

\* C26: both endpoints pick the outcome by the first rule that applies: a
\* body that is not a JSON object gives -32700 with id null, a jsonrpc other
\* than "2.0" gives -32600, a missing or empty method gives -32600, a method
\* the endpoint does not serve gives -32601, a handler raising ValueError
\* gives -32602, a handler raising anything else gives -32603, and otherwise
\* the result is sent; no exception leaves the endpoint.
C26_FirstApplicableRule ==
    rpc_result # NoOutcome =>
        /\ rpc_result.outcome.kind = "return"
        /\ CodeOf(rpc_result.outcome.value) =
               RuleCode(rpc_result.kind, rpc_result.body, rpc_result.handler)
        /\ rpc_result.body.t # "obj" =>
               rpc_result.outcome.value.body.members["id"] = JNull

----------------------------------------------------------------------------
(* C27                                                                     *)

\* The id of the request, null when the body is not an object or has none
RequestId(body) == IF body.t = "obj" THEN ObjGet(body, "id") ELSE JNull

\* C27: every response of the two endpoints has exactly one of the members
\* "result" and "error", has jsonrpc "2.0", and has the id of the request it
\* answers, which is null only when the request had no id or was not parsed.
C27_ResponseWellFormed ==
    rpc_result # NoOutcome =>
        /\ rpc_result.outcome.kind = "return"
        /\ LET members == rpc_result.outcome.value.body.members
           IN  /\ ("result" \in DOMAIN members) # ("error" \in DOMAIN members)
               /\ members["jsonrpc"] = JStr("2.0")
               /\ members["id"] = RequestId(rpc_result.body)

----------------------------------------------------------------------------
(* C28                                                                     *)

\* The tool calls of the message at position i of messages
ToolCallsAt(messages, i) ==
    IF messages[i].role = "assistant" /\ "tool_calls" \in DOMAIN messages[i]
    THEN messages[i].tool_calls
    ELSE << >>

\* The tool calls of the assistant message at position i are answered: the
\* messages that follow it are one tool message for each call, with the
\* call's id, in call order, and then no further tool message
AnsweredAt(messages, i) ==
    /\ i + Len(ToolCallsAt(messages, i)) <= Len(messages)
    /\ \A j \in 1..Len(ToolCallsAt(messages, i)) :
           /\ messages[i + j].role = "tool"
           /\ messages[i + j].tool_call_id = ToolCallsAt(messages, i)[j].id
    /\ i + Len(ToolCallsAt(messages, i)) < Len(messages) =>
           messages[i + Len(ToolCallsAt(messages, i)) + 1].role # "tool"

\* C28: whenever run asks for the next completion or has ended, every tool
\* call of every assistant message has been answered by exactly one tool
\* message with its id, after the assistant message and in call order; this
\* includes calls with invalid JSON arguments, unknown tool names and
\* crawler failures.
C28_EveryToolCallAnswered ==
    llm_pc \in {"completion", "returned", "raised"} =>
        \A i \in 1..Len(llm_messages) :
            llm_messages[i].role = "assistant" => AnsweredAt(llm_messages, i)

----------------------------------------------------------------------------
(* C29                                                                     *)

\* The requests and the result of a get_agent_description call are as the
\* retry rule allows
RetryRuleKept ==
    /\ Len(client_sent) <= 2
    /\ Len(client_sent) = 2 =>
           /\ Len(client_responses) >= 1
           /\ client_responses[1].status_code = 401
           /\ client_authenticator
    /\ (/\ client_pc = "done"
        /\ Len(client_responses) = 2
        /\ client_responses[2].status_code = 401) =>
           /\ client_result.kind = "raise"
           /\ client_result.exc.type = "HTTPStatusError"
           /\ client_result.exc.status_code = 401

\* C29: a get_agent_description call sends at most two requests, the second
\* only after a 401 on the first with an authenticator configured; a 401 on
\* the second request is raised to the caller; and every call ends.
C29_AtMostTwoRequests ==
    /\ []RetryRuleKept
    /\ (client_pc = "awaiting") ~> (client_pc = "done")

\* A call has ended by raising the 401 of its second request
C29_Witness ==
    /\ client_pc = "done"
    /\ Len(client_sent) = 2
    /\ Len(client_responses) = 2
    /\ client_responses[2].status_code = 401
    /\ client_result.kind = "raise"

====
